---- MODULE Spec2Model ----
(***************************************************************************)
(* Model of build_linux/clang-tidy/filter_clang_tidy.py: the pipeline      *)
(*   read_args -> read_config -> read_commands -> filter_sources ->        *)
(*   filter_headers -> save_commands.                                      *)
(* Strings are sequences of one-character strings, so that the substring   *)
(* test, str.replace, str.lstrip, os.path.join, os.path.dirname and        *)
(* os.path.relpath are computed character by character as Python does.     *)
(* Paths are POSIX paths, absolute and normalised. The entry objects are   *)
(* the elements of commands; commands_inc and commands_exc hold references *)
(* to them, as the Python lists do.                                        *)
(***************************************************************************)
EXTENDS Naturals, Sequences, FiniteSets

VARIABLES
    GRACEFUL_EXIT,   \* module switch (line 22: False); both settings are covered
    config_file,     \* the file at path_config: [exists, content]
    database_file,   \* <build>/compile_commands.json: [exists, content]
    path_root,       \* global path_root
    isystem,         \* global isystem
    excludes,        \* global excludes: list of strings
    commands,        \* global commands: the loaded entry objects, in load order
    commands_inc,    \* global commands_inc: references (positions in commands)
    commands_exc,    \* global commands_exc: references (positions in commands)
    out_inc,         \* <build>/compile_commands_inc.json: [exists, content]
    out_exc,         \* <build>/compile_commands_exc.json: [exists, content]
    exit_status,     \* "running", or the process exit status 0 / 1
    message,         \* diagnostic printed on exit
    pc               \* the stage main() is about to run

vars == <<GRACEFUL_EXIT, config_file, database_file, path_root, isystem, excludes,
          commands, commands_inc, commands_exc, out_inc, out_exc, exit_status,
          message, pc>>

\* ---------------------------------------------------------------- bounds
MaxCommands == 2     \* entries in the compilation database
MaxExcludes == 2     \* entries in the exclude configuration
MaxFrags == 4        \* fragments a generated command line is made of

\* ---------------------------------------------------------------- strings
Sep == "/"
NoFile == [exists |-> FALSE, content |-> <<>>]

n_root == <<"r", "o", "o", "t">>
n_foo == <<"f", "o", "o">>
n_foobar == <<"f", "o", "o", "b", "a", "r">>
n_sub == <<"s", "u", "b">>
n_xI == <<"x", "-", "I">>
n_file == <<"b", "a", "r", ".", "c", "p", "p">>
s_cc == <<"c", "c">>
s_space == <<" ">>
s_I == <<"-", "I">>
s_isystem == <<"-", "i", "s", "y", "s", "t", "e", "m", " ">>
s_dot == <<".">>
s_dotdot == <<".", ".">>

Range(s) == {s[i] : i \in 1..Len(s)}

Last(s) == s[Len(s)]

\* Python: a in b
IsSubstring(a, b) ==
    \E i \in 0..Len(b) : i + Len(a) <= Len(b) /\ SubSeq(b, i + 1, i + Len(a)) = a

StartsWith(s, p) == Len(p) <= Len(s) /\ SubSeq(s, 1, Len(p)) = p

\* Python: sep.join(parts)
RECURSIVE StrJoin(_, _)
StrJoin(sep, parts) ==
    IF parts = <<>> THEN <<>>
    ELSE IF Len(parts) = 1 THEN parts[1]
    ELSE parts[1] \o sep \o StrJoin(sep, Tail(parts))

\* Python: s.lstrip(ch)
RECURSIVE LStrip(_, _)
LStrip(s, ch) ==
    IF s # <<>> /\ Head(s) = ch THEN LStrip(Tail(s), ch) ELSE s

\* Python: s.rstrip(ch)
RECURSIVE RStrip(_, _)
RStrip(s, ch) ==
    IF s # <<>> /\ Last(s) = ch THEN RStrip(SubSeq(s, 1, Len(s) - 1), ch) ELSE s

\* Replace with count=1: only the leftmost occurrence is replaced.
RECURSIVE ReplaceFirst(_, _, _)
ReplaceFirst(s, old, new) ==
    IF Len(s) < Len(old) THEN s
    ELSE IF StartsWith(s, old)
         THEN new \o SubSeq(s, Len(old) + 1, Len(s))
         ELSE <<Head(s)>> \o ReplaceFirst(Tail(s), old, new)

\* Python: s.replace(old, new) for a non-empty old: leftmost occurrences,
\* scanning left to right, the scan resuming after each replaced occurrence.
RECURSIVE Replace(_, _, _)
Replace(s, old, new) ==
    IF Len(s) < Len(old) THEN s
    ELSE IF StartsWith(s, old)
         THEN new \o Replace(SubSeq(s, Len(old) + 1, Len(s)), old, new)
         ELSE <<Head(s)>> \o Replace(Tail(s), old, new)

\* Python: [x for x in p.split('/') if x]
RECURSIVE SplitPath(_, _, _)
SplitPath(p, cur, acc) ==
    IF p = <<>> THEN (IF cur = <<>> THEN acc ELSE Append(acc, cur))
    ELSE IF Head(p) = Sep
         THEN SplitPath(Tail(p), <<>>, IF cur = <<>> THEN acc ELSE Append(acc, cur))
         ELSE SplitPath(Tail(p), Append(cur, Head(p)), acc)

\* posixpath.join(a, b)
PathJoin(a, b) ==
    IF b # <<>> /\ Head(b) = Sep THEN b
    ELSE IF a = <<>> \/ Last(a) = Sep THEN a \o b
    ELSE a \o <<Sep>> \o b

\* index just after the last separator of p (p.rfind('/') + 1)
RECURSIVE RFindSep(_, _)
RFindSep(p, i) ==
    IF i = 0 THEN 0 ELSE IF p[i] = Sep THEN i ELSE RFindSep(p, i - 1)

\* posixpath.dirname(p)
DirName(p) ==
    LET head == SubSeq(p, 1, RFindSep(p, Len(p)))
    IN  IF head # <<>> /\ Range(head) # {Sep} THEN RStrip(head, Sep) ELSE head

\* length of the common prefix of two segment lists
RECURSIVE CommonLen(_, _)
CommonLen(a, b) ==
    IF a = <<>> \/ b = <<>> \/ Head(a) # Head(b) THEN 0
    ELSE 1 + CommonLen(Tail(a), Tail(b))

\* posixpath.relpath(path, start), both absolute and normalised
RelPath(path, start) ==
    LET start_list == SplitPath(start, <<>>, <<>>)
        path_list == SplitPath(path, <<>>, <<>>)
        i == CommonLen(start_list, path_list)
        rel_list == [k \in 1..(Len(start_list) - i) |-> s_dotdot]
                    \o SubSeq(path_list, i + 1, Len(path_list))
    IN  IF rel_list = <<>> THEN s_dot ELSE StrJoin(<<Sep>>, rel_list)

\* absolute path made of the given directory names
AbsPath(segs) == <<Sep>> \o StrJoin(<<Sep>>, segs)

\* ---------------------------------------------------------------- inputs
s_root == AbsPath(<<n_root>>)

\* excluded directories a configuration file may list (arrays of names)
ConfigEntries == {<<n_foo>>, <<n_foobar>>, <<n_sub, n_foo>>}

s_plain == s_cc
s_flags == s_cc \o s_space \o s_I \o AbsPath(<<n_root, n_foo>>)
           \o s_space \o s_I \o AbsPath(<<n_root, n_foo>>)

Entry(segs, cmd) ==
    [directory |-> AbsPath(<<n_root>>), command |-> cmd, file |-> AbsPath(segs)]

\* compile commands a database may hold
Entries ==
    { Entry(<<n_root, n_foo, n_file>>, s_plain),
      Entry(<<n_root, n_foobar, n_file>>, s_flags),
      Entry(<<n_root, n_sub, n_foo, n_file>>, s_plain),
      Entry(<<n_root, n_file>>, s_flags),
      Entry(<<n_root, n_file>>, s_plain),
      Entry(<<n_foo, n_file>>, s_flags) }

SeqsUpTo(S, n) == UNION {[1..k -> S] : k \in 0..n}

ConfigFiles ==
    {NoFile} \cup {[exists |-> TRUE, content |-> c] : c \in SeqsUpTo(ConfigEntries, MaxExcludes)}

DatabaseFiles ==
    {NoFile} \cup {[exists |-> TRUE, content |-> c] : c \in SeqsUpTo(Entries, MaxCommands)}

\* ---------------------------------------------------------------- stages
\* read_config, lines 113-115: one exclude string per configured directory
RECURSIVE MakeExcludes(_, _)
MakeExcludes(excludes_raw, acc) ==
    IF excludes_raw = <<>> THEN acc
    ELSE MakeExcludes(Tail(excludes_raw),
                      Append(acc, <<Sep>> \o StrJoin(<<Sep>>, Head(excludes_raw))))

\* filter_sources, line 152
PathStr(command, root) == <<Sep>> \o RelPath(DirName(command.file), root)

\* the inner loop leaving after the first exclude, matched or not
IncludeFolderFirstOnly(excl, path_str) ==
    excl = <<>> \/ ~IsSubstring(Head(excl), path_str)

\* filter_sources, lines 153-157: the inner loop with its break
RECURSIVE IncludeFolder(_, _)
IncludeFolder(excl, path_str) ==
    IF excl = <<>> THEN TRUE
    ELSE IF IsSubstring(Head(excl), path_str) THEN FALSE
    ELSE IncludeFolder(Tail(excl), path_str)

\* the outer loop without its else: an excluded entry is appended to both lists
RECURSIVE FilterSourcesNoElse(_, _, _, _, _, _)
FilterSourcesNoElse(cmds, excl, root, k, inc, exc) ==
    IF k > Len(cmds) THEN [inc |-> inc, exc |-> exc]
    ELSE IF IncludeFolder(excl, PathStr(cmds[k], root))
         THEN FilterSourcesNoElse(cmds, excl, root, k + 1, Append(inc, k), exc)
         ELSE FilterSourcesNoElse(cmds, excl, root, k + 1, Append(inc, k), Append(exc, k))

\* the outer loop inserting at the front of the lists instead of appending
RECURSIVE FilterSourcesPrepend(_, _, _, _, _, _)
FilterSourcesPrepend(cmds, excl, root, k, inc, exc) ==
    IF k > Len(cmds) THEN [inc |-> inc, exc |-> exc]
    ELSE IF IncludeFolder(excl, PathStr(cmds[k], root))
         THEN FilterSourcesPrepend(cmds, excl, root, k + 1, <<k>> \o inc, exc)
         ELSE FilterSourcesPrepend(cmds, excl, root, k + 1, inc, <<k>> \o exc)

\* filter_sources, lines 147-166: the outer loop over the commands from k on
RECURSIVE FilterSources(_, _, _, _, _, _)
FilterSources(cmds, excl, root, k, inc, exc) ==
    IF k > Len(cmds) THEN [inc |-> inc, exc |-> exc]
    ELSE IF IncludeFolder(excl, PathStr(cmds[k], root))
         THEN FilterSources(cmds, excl, root, k + 1, Append(inc, k), exc)
         ELSE FilterSources(cmds, excl, root, k + 1, inc, Append(exc, k))

\* the strip loop left out
StripExcludesKept(excl) == excl

\* filter_headers, lines 177-178
StripExcludes(excl) == [i \in 1..Len(excl) |-> LStrip(excl[i], Sep)]

HeaderInclude(root, exclude) == s_I \o PathJoin(root, exclude)

\* the system-include form without the space after -isystem
HeaderIsystemNoSpace(root, exclude) ==
    SubSeq(s_isystem, 1, Len(s_isystem) - 1) \o PathJoin(root, exclude)

HeaderIsystem(root, exclude) == s_isystem \o PathJoin(root, exclude)

\* filter_headers, lines 180-187: the inner loop over the (stripped) excludes
RECURSIVE RewriteCommand(_, _, _)
RewriteCommand(cmd, root, excl) ==
    IF excl = <<>> THEN cmd
    ELSE IF IsSubstring(HeaderInclude(root, Head(excl)), cmd)
         THEN RewriteCommand(Replace(cmd, HeaderInclude(root, Head(excl)),
                                     HeaderIsystem(root, Head(excl))),
                             root, Tail(excl))
         ELSE RewriteCommand(cmd, root, Tail(excl))

\* the rewrite visiting the excluded entries too
RewriteTargetsAll(inc, exc) == Range(inc) \cup Range(exc)

\* filter_headers, line 179: the entries the rewrite visits
RewriteTargets(inc, exc) == Range(inc)

\* the rewrite running whatever the flag
FilterHeadersAlways(flag, root, excl, cmds, inc, exc) ==
    LET stripped == StripExcludes(excl)
    IN  [excludes |-> stripped,
         commands |-> [i \in 1..Len(cmds) |->
                         IF i \in RewriteTargets(inc, exc)
                         THEN [cmds[i] EXCEPT
                                 !.command = RewriteCommand(@, root, stripped)]
                         ELSE cmds[i]]]

\* filter_headers, lines 175-189
FilterHeaders(flag, root, excl, cmds, inc, exc) ==
    IF flag
    THEN LET stripped == StripExcludes(excl)
         IN  [excludes |-> stripped,
              commands |-> [i \in 1..Len(cmds) |->
                              IF i \in RewriteTargets(inc, exc)
                              THEN [cmds[i] EXCEPT
                                      !.command = RewriteCommand(@, root, stripped)]
                              ELSE cmds[i]]]
    ELSE [excludes |-> excl, commands |-> cmds]

\* json.dump of a list of entry references, lines 199-203
Dump(cmds, refs) == [exists |-> TRUE, content |-> [i \in 1..Len(refs) |-> cmds[refs[i]]]]

\* ---------------------------------------------------------------- pipeline
Init ==
    /\ GRACEFUL_EXIT \in BOOLEAN
    /\ config_file \in ConfigFiles
    /\ database_file \in DatabaseFiles
    /\ path_root = <<>>
    /\ isystem = FALSE
    /\ excludes = <<>>
    /\ commands = <<>>
    /\ commands_inc = <<>>
    /\ commands_exc = <<>>
    /\ out_inc = NoFile
    /\ out_exc = NoFile
    /\ exit_status = "running"
    /\ message = "none"
    /\ pc = "read_args"

read_args ==
    /\ pc = "read_args"
    /\ \E flag \in BOOLEAN : isystem' = flag
    /\ path_root' = s_root
    /\ pc' = "read_config"
    /\ UNCHANGED <<GRACEFUL_EXIT, config_file, database_file, excludes, commands,
                   commands_inc, commands_exc, out_inc, out_exc, exit_status, message>>

\* the exit with the fatal status in both modes
ExitAlwaysFatal(kind) ==
    /\ exit_status' = "1"
    /\ message' = kind
    /\ pc' = "exited"

\* the exit both loaders take when their file is missing
Exit(kind) ==
    /\ exit_status' = IF GRACEFUL_EXIT THEN "0" ELSE "1"
    /\ message' = kind
    /\ pc' = "exited"

read_config ==
    /\ pc = "read_config"
    /\ IF ~config_file.exists
       THEN /\ Exit("MissingConfig")
            /\ UNCHANGED excludes
       ELSE /\ excludes' = MakeExcludes(config_file.content, excludes)
            /\ pc' = "read_commands"
            /\ UNCHANGED <<exit_status, message>>
    /\ UNCHANGED <<GRACEFUL_EXIT, config_file, database_file, path_root, isystem,
                   commands, commands_inc, commands_exc, out_inc, out_exc>>

read_commands ==
    /\ pc = "read_commands"
    /\ IF ~database_file.exists
       THEN /\ Exit("MissingDatabase")
            /\ UNCHANGED commands
       ELSE /\ commands' = database_file.content
            /\ pc' = "filter_sources"
            /\ UNCHANGED <<exit_status, message>>
    /\ UNCHANGED <<GRACEFUL_EXIT, config_file, database_file, path_root, isystem,
                   excludes, commands_inc, commands_exc, out_inc, out_exc>>

filter_sources ==
    /\ pc = "filter_sources"
    /\ LET r == FilterSources(commands, excludes, path_root, 1, commands_inc, commands_exc)
       IN  /\ commands_inc' = r.inc
           /\ commands_exc' = r.exc
    /\ pc' = "filter_headers"
    /\ UNCHANGED <<GRACEFUL_EXIT, config_file, database_file, path_root, isystem,
                   excludes, commands, out_inc, out_exc, exit_status, message>>

\* the body of filter_headers: what one call changes
apply_filter_headers ==
    /\ LET r == FilterHeaders(isystem, path_root, excludes, commands,
                              commands_inc, commands_exc)
       IN  /\ excludes' = r.excludes
           /\ commands' = r.commands
    /\ UNCHANGED <<GRACEFUL_EXIT, config_file, database_file, path_root, isystem,
                   commands_inc, commands_exc, out_inc, out_exc, exit_status, message>>

filter_headers ==
    /\ pc = "filter_headers"
    /\ apply_filter_headers
    /\ pc' = "save_commands"

save_commands ==
    /\ pc = "save_commands"
    /\ out_inc' = Dump(commands, commands_inc)
    /\ out_exc' = Dump(commands, commands_exc)
    /\ exit_status' = "0"
    /\ pc' = "done"
    /\ UNCHANGED <<GRACEFUL_EXIT, config_file, database_file, path_root, isystem,
                   excludes, commands, commands_inc, commands_exc, message>>

Next ==
    \/ read_args
    \/ read_config
    \/ read_commands
    \/ filter_sources
    \/ filter_headers
    \/ save_commands

Spec == Init /\ [][Next]_vars

\* ------------------------------------------------ the Header Rewriter alone
\* Command lines are generated from fragments: the -I flag prefix, absolute
\* directories, and a name suffix (so that /root/foo and /root/foobar occur).
Frags == {s_I, AbsPath(<<n_root, n_foo>>), <<"b", "a", "r">>, AbsPath(<<n_root, n_xI>>)}

RECURSIVE Concat(_)
Concat(parts) == IF parts = <<>> THEN <<>> ELSE Head(parts) \o Concat(Tail(parts))

GenCommands == {Concat(fs) : fs \in SeqsUpTo(Frags, MaxFrags)}

RewriteConfigEntries == {<<n_foo>>, <<n_foobar>>, <<n_xI>>}

\* The state main() is in when it calls filter_headers with --isystem, for a
\* database of one entry in the root directory.
InitRewrite ==
    /\ GRACEFUL_EXIT = FALSE
    /\ \E c \in SeqsUpTo(RewriteConfigEntries, MaxExcludes) :
         /\ config_file = [exists |-> TRUE, content |-> c]
         /\ excludes = MakeExcludes(c, <<>>)
    /\ \E cmd \in GenCommands :
         database_file = [exists |-> TRUE,
                          content |-> <<Entry(<<n_root, n_file>>, cmd)>>]
    /\ path_root = s_root
    /\ isystem = TRUE
    /\ commands = database_file.content
    /\ LET r == FilterSources(commands, excludes, path_root, 1, <<>>, <<>>)
       IN  /\ commands_inc = r.inc
           /\ commands_exc = r.exc
    /\ out_inc = NoFile
    /\ out_exc = NoFile
    /\ exit_status = "running"
    /\ message = "none"
    /\ pc = "rewrite0"

rewrite_once ==
    /\ pc = "rewrite0"
    /\ apply_filter_headers
    /\ pc' = "rewrite1"

rewrite_twice ==
    /\ pc = "rewrite1"
    /\ apply_filter_headers
    /\ pc' = "rewrite2"

NextRewrite == rewrite_once \/ rewrite_twice

SpecRewrite == InitRewrite /\ [][NextRewrite]_vars

\* ================================================================ claims
Input == database_file.content

Loaded == MakeExcludes(config_file.content, <<>>)

AfterPartition == pc \in {"filter_headers", "save_commands", "done"}

\* number of positions of the list refs that hold the reference i
Occurrences(refs, i) == Cardinality({j \in 1..Len(refs) : refs[j] = i})

Increasing(refs) == \A j, k \in 1..Len(refs) : j < k => refs[j] < refs[k]

\* C1: after filter_sources every entry of the database is in exactly one of
\* commands_inc and commands_exc, and the two lengths add up to the number of
\* entries of the database.
C1_PartitionComplete ==
    AfterPartition =>
        /\ Len(commands) = Len(Input)
        /\ Len(commands_inc) + Len(commands_exc) = Len(Input)
        /\ \A i \in 1..Len(Input) :
               Occurrences(commands_inc, i) + Occurrences(commands_exc, i) = 1
        /\ Range(commands_inc) \cup Range(commands_exc) = 1..Len(Input)

C1_Witness ==
    /\ pc = "done"
    /\ Len(Input) = MaxCommands
    /\ commands_inc # <<>>
    /\ commands_exc # <<>>

\* C2: commands_inc and commands_exc are subsequences of the database: entries
\* that land in the same list keep the order they have in the database.
C2_OrderPreserved ==
    AfterPartition =>
        /\ Increasing(commands_inc)
        /\ Increasing(commands_exc)
        /\ pc = "done" =>
             /\ out_inc.content = [j \in 1..Len(commands_inc) |-> commands[commands_inc[j]]]
             /\ out_exc.content = [j \in 1..Len(commands_exc) |-> commands[commands_exc[j]]]

C2_Witness ==
    /\ pc = "done"
    /\ \/ Len(commands_inc) >= 2 /\ Input[commands_inc[1]] # Input[commands_inc[2]]
       \/ Len(commands_exc) >= 2 /\ Input[commands_exc[1]] # Input[commands_exc[2]]

\* C3: with root /root and the single exclude entry ["foo"], the entry of
\* /root/foo/bar.cpp is excluded and the entry of /root/foobar/bar.cpp is
\* included.
C3_SeparatorPrefix ==
    (AfterPartition /\ path_root = s_root /\ config_file.content = << <<n_foo>> >>) =>
        \A i \in 1..Len(commands) :
            /\ commands[i].file = AbsPath(<<n_root, n_foo, n_file>>)
                  => i \in Range(commands_exc)
            /\ commands[i].file = AbsPath(<<n_root, n_foobar, n_file>>)
                  => i \in Range(commands_inc)

Injective(f) == \A a, b \in DOMAIN f : f[a] = f[b] => a = b

Perms(n) == {f \in [1..n -> 1..n] : Injective(f)}

\* the relative-directory string of an entry: separator + directory of the
\* file relative to the root
RelDirStr(entry) == <<Sep>> \o RelPath(DirName(entry.file), path_root)

SomeExcludeIn(entry, excl) ==
    \E j \in 1..Len(excl) : IsSubstring(excl[j], RelDirStr(entry))

\* C4: when filter_sources returns, an entry is excluded iff some
\* excluded-path string is a substring of its relative-directory string,
\* otherwise it is included; the partition is the same for every permutation
\* of the exclude list.
C4_ExcludedIffSubstring ==
    pc = "filter_headers" =>
        /\ \A i \in 1..Len(Input) :
               /\ i \in Range(commands_exc) <=> SomeExcludeIn(Input[i], excludes)
               /\ i \in Range(commands_inc) <=> ~SomeExcludeIn(Input[i], excludes)
        /\ \A p \in Perms(Len(excludes)) :
               FilterSources(Input, [k \in 1..Len(excludes) |-> excludes[p[k]]],
                             path_root, 1, <<>>, <<>>)
                 = [inc |-> commands_inc, exc |-> commands_exc]

\* an entry matched by the second exclude only, and one matched by none
C4_Witness ==
    /\ pc = "filter_headers"
    /\ Len(excludes) = 2
    /\ \E i \in Range(commands_exc) :
           /\ ~IsSubstring(excludes[1], RelDirStr(Input[i]))
           /\ IsSubstring(excludes[2], RelDirStr(Input[i]))
    /\ commands_inc # <<>>

PlainForm(j) == s_I \o PathJoin(path_root, LStrip(Loaded[j], Sep))

SystemForm(j) == s_isystem \o PathJoin(path_root, LStrip(Loaded[j], Sep))

HasPlainForm(cmd) == \E j \in 1..Len(Loaded) : IsSubstring(PlainForm(j), cmd)

\* C5: with the flag unset every entry is written with the command string of
\* its input entry.
C5_NoRewriteWhenUnset ==
    (pc = "done" /\ ~isystem) =>
        /\ \A j \in 1..Len(commands_inc) :
               out_inc.content[j].command = Input[commands_inc[j]].command
        /\ \A j \in 1..Len(commands_exc) :
               out_exc.content[j].command = Input[commands_exc[j]].command

\* an included entry the rewrite would have changed
C5_Witness ==
    /\ pc = "done"
    /\ ~isystem
    /\ \E j \in 1..Len(commands_inc) : HasPlainForm(Input[commands_inc[j]].command)

FilesWritten == out_inc.exists \/ out_exc.exists

NothingDone ==
    /\ commands_inc = <<>>
    /\ commands_exc = <<>>
    /\ ~FilesWritten

\* C7: a missing config stops the run in read_config, a missing database
\* (config present) stops it in read_commands; nothing is partitioned,
\* rewritten or written, the status is 1 in fatal mode and 0 in graceful
\* mode, and a missing config is reported even when the database is missing.
C7_MissingInputs ==
    /\ (~config_file.exists /\ pc \notin {"read_args", "read_config"}) =>
           /\ pc = "exited"
           /\ message = "MissingConfig"
           /\ exit_status = (IF GRACEFUL_EXIT THEN "0" ELSE "1")
           /\ excludes = <<>> /\ commands = <<>> /\ NothingDone
    /\ (config_file.exists /\ ~database_file.exists
          /\ pc \notin {"read_args", "read_config", "read_commands"}) =>
           /\ pc = "exited"
           /\ message = "MissingDatabase"
           /\ exit_status = (IF GRACEFUL_EXIT THEN "0" ELSE "1")
           /\ commands = <<>> /\ NothingDone
    /\ pc = "exited" => (~config_file.exists \/ ~database_file.exists)
    /\ pc \in {"filter_sources", "filter_headers", "save_commands", "done"} =>
           (config_file.exists /\ database_file.exists)

C7_Witness ==
    /\ pc = "exited"
    /\ ~config_file.exists
    /\ ~database_file.exists
    /\ GRACEFUL_EXIT
    /\ exit_status = "0"

\* C9: every excluded entry is written equal to its input in all fields, and
\* every included entry is written equal to its input in all fields but
\* command.
C9_OnlyIncludedCommandChanges ==
    /\ AfterPartition =>
           /\ \A i \in Range(commands_exc) : commands[i] = Input[i]
           /\ \A i \in Range(commands_inc) :
                  [commands[i] EXCEPT !.command = Input[i].command] = Input[i]
    /\ pc = "done" =>
           /\ Len(out_exc.content) = Len(commands_exc)
           /\ Len(out_inc.content) = Len(commands_inc)
           /\ \A j \in 1..Len(commands_exc) :
                  out_exc.content[j] = Input[commands_exc[j]]
           /\ \A j \in 1..Len(commands_inc) :
                  [out_inc.content[j] EXCEPT !.command = Input[commands_inc[j]].command]
                    = Input[commands_inc[j]]

\* an included entry whose command was rewritten, next to an excluded entry
\* whose command holds a plain-include form
C9_Witness ==
    /\ pc = "done"
    /\ isystem
    /\ \E j \in 1..Len(commands_inc) :
           out_inc.content[j].command # Input[commands_inc[j]].command
    /\ \E j \in 1..Len(commands_exc) : HasPlainForm(Input[commands_exc[j]].command)

\* C10 as stated: once read_config is over the excludes list keeps the value
\* it was loaded with, flag set or unset.
C10_Immutable ==
    pc \in {"read_commands", "filter_sources", "filter_headers", "save_commands",
            "done"} => excludes = Loaded

\* C10 amended: the list keeps its loaded value up to filter_headers, and
\* through it when the flag is unset; with the flag set filter_headers
\* replaces every element by the element without its leading separators.
C10_StrippedOnlyByRewrite ==
    /\ pc \in {"read_commands", "filter_sources", "filter_headers"} =>
           /\ excludes = Loaded
           /\ \A j \in 1..Len(excludes) : Head(excludes[j]) = Sep
    /\ (pc \in {"save_commands", "done"} /\ ~isystem) =>
           /\ excludes = Loaded
           /\ \A j \in 1..Len(excludes) : Head(excludes[j]) = Sep
    /\ (pc \in {"save_commands", "done"} /\ isystem) =>
           /\ Len(excludes) = Len(Loaded)
           /\ \A j \in 1..Len(excludes) :
                  /\ \E k \in 1..Len(Loaded[j]) :
                         Loaded[j] = [n \in 1..k |-> Sep] \o excludes[j]
                  /\ (excludes[j] = <<>> \/ Head(excludes[j]) # Sep)

C10_Witness ==
    /\ pc = "done"
    /\ isystem
    /\ Len(excludes) = MaxExcludes
    /\ excludes # Loaded

\* ------------------------------------------------ claims on the rewriter
CountOcc(p, str) ==
    Cardinality({i \in 0..Len(str) : i + Len(p) <= Len(str)
                                     /\ SubSeq(str, i + 1, i + Len(p)) = p})

\* no absolute excluded path holds the character "-"
DashFree ==
    \A j \in 1..Len(Loaded) : "-" \notin Range(PathJoin(path_root, LStrip(Loaded[j], Sep)))

\* C6 as stated: a second application of the rewriter changes no command.
C6_Idempotent == [][pc = "rewrite1" => commands' = commands]_vars

\* C6 amended: when no absolute excluded path holds a "-", no plain-include
\* form is left after the first application and the second application
\* changes no command.
C6_IdempotentDashFree ==
    [][(pc = "rewrite1" /\ DashFree) =>
          /\ \A i \in Range(commands_inc) : ~HasPlainForm(commands[i].command)
          /\ commands' = commands]_vars

\* a command that the first application rewrote in two places
C6_Witness ==
    /\ pc = "rewrite2"
    /\ DashFree
    /\ \E i \in Range(commands_inc) :
           /\ commands[i].command # Input[i].command
           /\ \E j \in 1..Len(Loaded) : CountOcc(PlainForm(j), Input[i].command) >= 2

\* C8 as stated: after the rewrite, of every plain-include form that occurred
\* in an included entry's command every occurrence has become the
\* system-include form, and a command without any plain-include form is
\* unchanged.
C8_EveryOccurrenceReplaced ==
    pc = "rewrite1" =>
        \A i \in Range(commands_inc) :
            /\ \A j \in 1..Len(Loaded) :
                   IsSubstring(PlainForm(j), Input[i].command) =>
                       /\ ~IsSubstring(PlainForm(j), commands[i].command)
                       /\ IsSubstring(SystemForm(j), commands[i].command)
            /\ ~HasPlainForm(Input[i].command) => commands[i].command = Input[i].command

\* C8 amended: a command without any plain-include form is unchanged; when no
\* absolute excluded path holds a "-", no plain-include form is left in the
\* command and each form that occurred has become the system-include form,
\* as many times as it occurred.
C8_ReplacedDashFree ==
    pc = "rewrite1" =>
        \A i \in Range(commands_inc) :
            /\ ~HasPlainForm(Input[i].command) => commands[i].command = Input[i].command
            /\ DashFree =>
                 \A j \in 1..Len(Loaded) :
                     /\ ~IsSubstring(PlainForm(j), commands[i].command)
                     /\ CountOcc(SystemForm(j), commands[i].command)
                          >= CountOcc(PlainForm(j), Input[i].command)
                     /\ IsSubstring(PlainForm(j), Input[i].command) =>
                            IsSubstring(SystemForm(j), commands[i].command)

\* two occurrences of one form, both rewritten
C8_Witness ==
    /\ pc = "rewrite1"
    /\ DashFree
    /\ \E i \in Range(commands_inc) : \E j \in 1..Len(Loaded) :
           /\ CountOcc(PlainForm(j), Input[i].command) = 2
           /\ CountOcc(SystemForm(j), commands[i].command) = 2

====
